---- MODULE Spec2Model ----
(***************************************************************************)
(* Compressed-NFT minting client: the RPC proxy route (/api/helius), the   *)
(* mint proxy route (/api/mint-cnft) and the useMintCNFT mutation hook.    *)
(*                                                                         *)
(* JavaScript values are modelled by strings: `undefined` and `null` are   *)
(* the two sentinels below, "" is the empty string.  A JSON request body   *)
(* is a record with a `kind` ("unparsable": req.json() rejects, "null":    *)
(* the JSON value null, "object": anything whose properties can be read)   *)
(* and one field per property the handler destructures.  An upstream       *)
(* exchange is a record with a `kind` ("reject": fetch() rejects,          *)
(* "response": a complete HTTP response was received).                     *)
(***************************************************************************)
EXTENDS Integers, Sequences, FiniteSets, TLC

VARIABLES
    rpcProxy,       \* last exchange handled by /api/helius
    mintProxy,      \* last exchange handled by /api/mint-cnft
    configuredTree, \* !!process.env.NEXT_PUBLIC_MERKLE_TREE_ADDRESS (build time)
    pc,             \* position of the current mutation of useMintCNFT
    attempt,        \* number of mutations started so far
    att,            \* the current mutation: inputs, decisions, observable effects
    timers,         \* pending setTimeout callbacks, ordered by due time
    firedTimers,    \* the timers that ran, as [attempt, delay]
    cacheOps        \* operations performed on the query client

vars == <<rpcProxy, mintProxy, configuredTree, pc, attempt, att, timers,
          firedTimers, cacheOps>>

proxyVars == <<rpcProxy, mintProxy>>
hookVars == <<configuredTree, pc, attempt, att, timers, firedTimers, cacheOps>>

----------------------------------------------------------------------------
(* Bounds of the model *)

\* mutations started in one run
MaxAttempts == 2

----------------------------------------------------------------------------
(* JavaScript values *)

undefined == "<undefined>"
null == "<null>"

\* ToBoolean on the values the model uses (absent, null, strings)
Truthy(v) == v \notin {undefined, null, ""}

\* a || b
Or(a, b) == IF Truthy(a) THEN a ELSE b

\* An Error's message: a template and the number interpolated into it (0: none)
Err(template, n) == [message |-> template, arg |-> n]

\* new Response(JSON.stringify(json), { status, headers: { content-type: application/json } })
JsonResponse(status, json) ==
    [status |-> status, contentType |-> "application/json", json |-> json]

\* Response.ok
Ok(status) == status >= 200 /\ status <= 299

\* new Response(body, { status }) with a non-null body throws a RangeError
\* for a status outside 200..599 and a TypeError for a null-body status
ResponseConstructible(status) ==
    /\ status >= 200 /\ status <= 599
    /\ status \notin {204, 205, 304}

\* getHeliusRpcUrl() of @/lib/helius: the provider endpoint with the
\* server-held credential
getHeliusRpcUrl == "https://rpc.helius/?api-key=HELIUS_API_KEY"

----------------------------------------------------------------------------
(* RPC proxy: POST and GET of /api/helius *)

RpcMethods == {undefined, "", "getAsset", "getAssetsByOwner"}
RpcParams == {undefined, "params1", "params2"}

RpcBodies ==
    [kind : {"unparsable", "null"}, method : {undefined}, params : {undefined}]
    \cup [kind : {"object"}, method : RpcMethods, params : RpcParams]

UpstreamStatuses == {200, 204, 404, 500}

RpcUpstreams ==
    [kind : {"reject"}, status : {0}, text : {""}, contentType : {null}]
    \cup [kind : {"response"}, status : UpstreamStatuses,
          text : {"", "{\"result\":1}"}, contentType : {null, "text/plain"}]

NoUpstream == [kind |-> "none", status |-> 0, text |-> "", contentType |-> null]

\* the catch block of the handler
RpcCaught(msg, forwarded) ==
    [response |-> JsonResponse(500, [error |-> msg]), forwarded |-> forwarded]

\* POST(req): the response and the requests sent upstream
HeliusPOST(body, up) ==
    IF body.kind = "unparsable"
    THEN RpcCaught(Err("Unexpected token in JSON", 0), <<>>)
    ELSE IF body.kind = "null"
    THEN RpcCaught(Err("Cannot destructure property 'method' of 'body' as it is null", 0), <<>>)
    ELSE IF ~Truthy(body.method)
    THEN [response |-> JsonResponse(400, [error |-> Err("Missing method in request body", 0)]),
          forwarded |-> <<>>]
    ELSE
      LET envelope == [url |-> getHeliusRpcUrl, jsonrpc |-> "2.0", id |-> "proxy",
                       method |-> body.method, params |-> body.params]
      IN IF up.kind = "reject"
         THEN RpcCaught(Err("fetch failed", 0), <<envelope>>)
         ELSE IF ~ResponseConstructible(up.status)
         THEN RpcCaught(Err("Response constructor: Invalid response status code", up.status),
                        <<envelope>>)
         ELSE [response |-> [status |-> up.status,
                             contentType |-> Or(up.contentType, "application/json"),
                             text |-> up.text],
               forwarded |-> <<envelope>>]

HeliusGET == JsonResponse(200, [status |-> "helius proxy endpoint"])

RpcIdle == [phase |-> "idle"]

RpcPost ==
    /\ \E body \in RpcBodies, up \in RpcUpstreams :
         LET out == HeliusPOST(body, up)
         IN rpcProxy' = [phase |-> "post", body |-> body,
                         upstream |-> IF out.forwarded = <<>> THEN NoUpstream ELSE up,
                         response |-> out.response, forwarded |-> out.forwarded]
    /\ UNCHANGED <<mintProxy, hookVars>>

RpcGet ==
    /\ rpcProxy' = [phase |-> "get", response |-> HeliusGET]
    /\ UNCHANGED <<mintProxy, hookVars>>

----------------------------------------------------------------------------
(* Mint proxy: POST and GET of /api/mint-cnft *)

MintBodies ==
    [kind : {"unparsable", "null"}, name : {undefined}, symbol : {undefined},
     owner : {undefined}, description : {undefined}, imageUrl : {undefined},
     attributes : {undefined}]
    \cup [kind : {"object"}, name : {undefined, "", "Foo"},
          symbol : {undefined, "", "FOO"}, owner : {undefined, "", "Addr1"},
          description : {undefined, "A description"},
          imageUrl : {undefined, "https://img/1.png"},
          attributes : {undefined, "[trait]"}]

\* the JSON-RPC reply of the provider: `json` is "unparsable" when the body is
\* not JSON, "null" for the JSON value null, else an object with an optional
\* error and an optional result {signature, assetId}
NoResult == [present |-> FALSE, signature |-> undefined, assetId |-> undefined]
Result1 == [present |-> TRUE, signature |-> "sig1", assetId |-> "id1-abcdefgh"]
NoRpcError == [message |-> undefined, arg |-> 0]
RpcError1 == [message |-> "Invalid params", arg |-> 32602]

MintReplies ==
    [json : {"unparsable", "null"}, error : {NoRpcError}, result : {NoResult}]
    \cup [json : {"object"}, error : {NoRpcError, RpcError1},
          result : {NoResult, Result1}]

MintUpstreams ==
    [kind : {"reject"}, status : {0}, data : {[json |-> "null", error |-> NoRpcError,
                                               result |-> NoResult]}]
    \cup [kind : {"response"}, status : UpstreamStatuses, data : MintReplies]

NoMintUpstream ==
    [kind |-> "none", status |-> 0,
     data |-> [json |-> "null", error |-> NoRpcError, result |-> NoResult]]

MintCaught(msg, forwarded) ==
    [response |-> JsonResponse(500, [error |-> msg]), forwarded |-> forwarded]

\* lines 34-44: what the handler makes of the provider's response
MintUpstreamReplyMutantStatus(up) ==
    IF ~Ok(up.status)
    THEN JsonResponse(500, [error |-> Err("Helius error: ${resp.status} - ${txt}", up.status)])
    ELSE IF up.data.json = "unparsable"
    THEN JsonResponse(500, [error |-> Err("Unexpected token in JSON", 0)])
    ELSE IF up.data.json = "null"
    THEN JsonResponse(500, [error |-> Err("Cannot read properties of null (reading 'error')", 0)])
    ELSE IF Truthy(up.data.error.message)
    THEN JsonResponse(502, [error |-> up.data.error])
    ELSE IF ~up.data.result.present
    THEN JsonResponse(500, [error |-> Err("Cannot read properties of undefined (reading 'signature')", 0)])
    ELSE JsonResponse(200, [signature |-> up.data.result.signature,
                            assetId |-> up.data.result.assetId])

MintUpstreamReply(up) ==
    IF ~Ok(up.status)
    THEN JsonResponse(502, [error |-> Err("Helius error: ${resp.status} - ${txt}", up.status)])
    ELSE IF up.data.json = "unparsable"
    THEN JsonResponse(500, [error |-> Err("Unexpected token in JSON", 0)])
    ELSE IF up.data.json = "null"
    THEN JsonResponse(500, [error |-> Err("Cannot read properties of null (reading 'error')", 0)])
    ELSE IF Truthy(up.data.error.message)
    THEN JsonResponse(502, [error |-> up.data.error])
    ELSE IF ~up.data.result.present
    THEN JsonResponse(500, [error |-> Err("Cannot read properties of undefined (reading 'signature')", 0)])
    ELSE JsonResponse(200, [signature |-> up.data.result.signature,
                            assetId |-> up.data.result.assetId])

\* lines 9-11: the required fields
MissingRequired(body) ==
    ~Truthy(body.name) \/ ~Truthy(body.symbol) \/ ~Truthy(body.owner)

\* POST(req): the response and the requests sent upstream
MintCnftPOST(body, up) ==
    IF body.kind = "unparsable"
    THEN MintCaught(Err("Unexpected token in JSON", 0), <<>>)
    ELSE IF body.kind = "null"
    THEN MintCaught(Err("Cannot destructure property 'name' of 'body' as it is null", 0), <<>>)
    ELSE IF MissingRequired(body)
    THEN [response |-> JsonResponse(400, [error |-> Err("Missing required fields: name, symbol, owner", 0)]),
          forwarded |-> <<>>]
    ELSE
      LET envelope ==
            [url |-> getHeliusRpcUrl, jsonrpc |-> "2.0", id |-> "helius-mint",
             method |-> "mintCompressedNft",
             params |-> [name |-> body.name, symbol |-> body.symbol, owner |-> body.owner,
                         description |-> Or(body.description, "A compressed NFT: ${name}"),
                         attributes |-> Or(body.attributes, "[]"),
                         imageUrl |-> Or(body.imageUrl, "https://arweave.net/placeholder-image"),
                         sellerFeeBasisPoints |-> 500]]
      IN IF up.kind = "reject"
         THEN MintCaught(Err("fetch failed", 0), <<envelope>>)
         ELSE [response |-> MintUpstreamReply(up), forwarded |-> <<envelope>>]

MintCnftGET == JsonResponse(200, [status |-> "mint-cnft endpoint"])

MintIdle == [phase |-> "idle"]

MintPost ==
    /\ \E body \in MintBodies, up \in MintUpstreams :
         LET out == MintCnftPOST(body, up)
         IN mintProxy' = [phase |-> "post", body |-> body,
                          upstream |-> IF out.forwarded = <<>> THEN NoMintUpstream ELSE up,
                          response |-> out.response, forwarded |-> out.forwarded]
    /\ UNCHANGED <<rpcProxy, hookVars>>

MintGet ==
    /\ mintProxy' = [phase |-> "get", response |-> MintCnftGET]
    /\ UNCHANGED <<rpcProxy, hookVars>>

----------------------------------------------------------------------------
(* useMintCNFT: inputs of one mutation *)

\* mutate(params): the form fields and the forceHelius switch
MintParams ==
    [name : {"Foo", ""}, symbol : {"FOO"}, description : {undefined},
     imageUrl : {undefined}, forceHelius : BOOLEAN]

\* useWalletAdapter(): not connected, connected, connected without signing
WalletAdapters ==
    { [publicKey |-> null, signTransaction |-> undefined],
      [publicKey |-> "AdapterKey", signTransaction |-> "function"],
      [publicKey |-> "AdapterKey", signTransaction |-> undefined] }

\* window.solana: not injected, injected by another wallet, Phantom before
\* connect() (its publicKey is null), Phantom connected
InjectedWallets ==
    { [injected |-> FALSE, isPhantom |-> FALSE, publicKey |-> null],
      [injected |-> TRUE, isPhantom |-> FALSE, publicKey |-> "OtherKey"],
      [injected |-> TRUE, isPhantom |-> TRUE, publicKey |-> null],
      [injected |-> TRUE, isPhantom |-> TRUE, publicKey |-> "PhantomKey"] }

\* useWallet().account
Accounts == [address : {undefined, "Addr1"}]

NoError == [message |-> undefined, arg |-> 0]
NoMintResult == [signature |-> undefined, assetId |-> undefined]

TreeNotConfigured ==
    Err("NEXT_PUBLIC_MERKLE_TREE_ADDRESS not configured. See TREE_SETUP_GUIDE.md", 0)
WalletNotConnectedTree ==
    Err("Wallet not connected. To mint with the configured Merkle tree you must connect a signing wallet. Alternatively, unset NEXT_PUBLIC_MERKLE_TREE_ADDRESS to use the Helius API fallback.", 0)
SigningUnsupported == Err("Wallet does not support transaction signing", 0)
WalletNotConnected == Err("Wallet not connected", 0)
PhantomKeyTypeError == Err("Cannot read properties of null (reading 'toString')", 0)

----------------------------------------------------------------------------
(* useMintCNFT: mutationFn up to its first await *)

\* line 212
UseExistingTreeMutant(tree, forceHelius) == tree
UseExistingTree(tree, forceHelius) == tree /\ ~forceHelius

\* sol && sol.isPhantom
PhantomPresent(sol) == sol.injected /\ sol.isPhantom

\* lines 218-285: which signer the existing-tree branch ends up with.
\* next: "tree" (go on to the signing check), "helius" (re-route to the
\* server mint with `owner`), "throw"
ResolveSignerMutantNoThrow(adapter, sol, account) ==
    IF Truthy(adapter.publicKey)
    THEN [next |-> "tree", signer |-> "adapter", publicKey |-> adapter.publicKey,
          signTransaction |-> adapter.signTransaction, owner |-> undefined,
          error |-> NoError]
    ELSE IF PhantomPresent(sol)
    THEN IF sol.publicKey = null
         THEN [next |-> "throw", signer |-> "none", publicKey |-> null,
               signTransaction |-> undefined, owner |-> undefined,
               error |-> PhantomKeyTypeError]
         ELSE [next |-> "tree", signer |-> "phantom", publicKey |-> sol.publicKey,
               signTransaction |-> "function", owner |-> undefined, error |-> NoError]
    ELSE [next |-> "helius", signer |-> "none", publicKey |-> null,
          signTransaction |-> undefined, owner |-> account.address, error |-> NoError]

ResolveSigner(adapter, sol, account) ==
    IF Truthy(adapter.publicKey)
    THEN [next |-> "tree", signer |-> "adapter", publicKey |-> adapter.publicKey,
          signTransaction |-> adapter.signTransaction, owner |-> undefined,
          error |-> NoError]
    ELSE IF PhantomPresent(sol)
    THEN IF sol.publicKey = null
         THEN \* new PublicKey(sol.publicKey.toString()) throws a TypeError
              [next |-> "throw", signer |-> "none", publicKey |-> null,
               signTransaction |-> undefined, owner |-> undefined,
               error |-> PhantomKeyTypeError]
         ELSE [next |-> "tree", signer |-> "phantom", publicKey |-> sol.publicKey,
               signTransaction |-> "function", owner |-> undefined, error |-> NoError]
    ELSE IF Truthy(account.address)
    THEN [next |-> "helius", signer |-> "none", publicKey |-> null,
          signTransaction |-> undefined, owner |-> account.address, error |-> NoError]
    ELSE [next |-> "throw", signer |-> "none", publicKey |-> null,
          signTransaction |-> undefined, owner |-> undefined,
          error |-> WalletNotConnectedTree]

\* process.env.NEXT_PUBLIC_MERKLE_TREE_ADDRESS as mintWithExistingTree reads it
treeAddress(tree) == IF tree THEN "TreeAddr1" ELSE undefined

\* mintWithExistingTree up to sendAndConfirm: lines 112-157
MintWithExistingTreeStart(tree) ==
    IF ~Truthy(treeAddress(tree))
    THEN [next |-> "throw", error |-> TreeNotConfigured]
    ELSE [next |-> "sendAndConfirm", error |-> NoError]

\* mutationFn, lines 210-302, up to the first await: the branch entered, the
\* signer, and what happens next ("throw", "fetch": the Mint Proxy is called
\* with `owner`, "sendAndConfirm": the transaction is handed to the SDK)
MutationFn(tree, params, adapter, sol, account) ==
    LET useExistingTree == UseExistingTree(tree, params.forceHelius)
        r == ResolveSigner(adapter, sol, account)
        base == [useExistingTree |-> useExistingTree, signer |-> "none",
                 rerouted |-> FALSE, owner |-> undefined, error |-> NoError,
                 next |-> "throw"]
    IN IF useExistingTree
       THEN IF r.next = "throw"
            THEN [base EXCEPT !.error = r.error]
            ELSE IF r.next = "helius"
            THEN [base EXCEPT !.rerouted = TRUE, !.owner = r.owner, !.next = "fetch"]
            ELSE IF ~Truthy(r.signTransaction)
            THEN [base EXCEPT !.signer = r.signer, !.error = SigningUnsupported]
            ELSE LET m == MintWithExistingTreeStart(tree)
                 IN [base EXCEPT !.signer = r.signer, !.error = m.error,
                                 !.next = m.next]
       ELSE IF ~Truthy(account.address)
            THEN [base EXCEPT !.error = WalletNotConnected]
            ELSE [base EXCEPT !.owner = account.address, !.next = "fetch"]

\* the body mintWithHeliusAPI posts to /api/mint-cnft, lines 175-185
HeliusAPIBody(params, walletAddress) ==
    [kind |-> "object", name |-> params.name, symbol |-> params.symbol,
     owner |-> walletAddress, description |-> params.description,
     imageUrl |-> params.imageUrl, attributes |-> undefined]

\* mintWithHeliusAPI after the fetch, lines 187-197
HeliusAPIResult(response) ==
    IF ~Ok(response.status)
    THEN [ok |-> FALSE, result |-> NoMintResult,
          error |-> Err("Server mint error: ${response.status} - ${text}", response.status)]
    ELSE IF "error" \in DOMAIN response.json
    THEN [ok |-> FALSE, result |-> NoMintResult, error |-> response.json.error]
    ELSE [ok |-> TRUE, error |-> NoError,
          result |-> [signature |-> response.json.signature,
                      assetId |-> response.json.assetId]]

Mutate ==
    /\ pc \in {"idle", "done"}
    /\ attempt < MaxAttempts
    /\ \E params \in MintParams, adapter \in WalletAdapters,
          sol \in InjectedWallets, account \in Accounts :
         LET m == MutationFn(configuredTree, params, adapter, sol, account)
         IN /\ att' = [id |-> attempt + 1, params |-> params, adapter |-> adapter,
                       sol |-> sol, account |-> account,
                       useExistingTree |-> m.useExistingTree, signer |-> m.signer,
                       rerouted |-> m.rerouted, owner |-> m.owner,
                       calls |-> {}, proxyRequests |-> <<>>,
                       result |-> NoMintResult, error |-> m.error,
                       toasts |-> <<>>, scheduled |-> <<>>]
            /\ pc' = CASE m.next = "throw" -> "failed"
                       [] m.next = "fetch" -> "awaitProxy"
                       [] OTHER -> "awaitChain"
    /\ attempt' = attempt + 1
    /\ UNCHANGED <<proxyVars, configuredTree, timers, firedTimers, cacheOps>>

\* the fetch of mintWithHeliusAPI settles: it rejects (the route was not
\* reached) or the route handled the request against some provider exchange
ProxyReply ==
    /\ pc = "awaitProxy"
    /\ LET body == HeliusAPIBody(att.params, att.owner)
       IN \/ /\ att' = [att EXCEPT !.calls = @ \cup {"fetch /api/mint-cnft"},
                                   !.proxyRequests = <<body>>,
                                   !.error = Err("Failed to fetch", 0)]
             /\ pc' = "failed"
          \/ \E up \in MintUpstreams :
               LET r == HeliusAPIResult(MintCnftPOST(body, up).response)
               IN /\ att' = [att EXCEPT !.calls = @ \cup {"fetch /api/mint-cnft"},
                                        !.proxyRequests = <<body>>,
                                        !.result = r.result, !.error = r.error]
                  /\ pc' = IF r.ok THEN "succeeded" ELSE "failed"
    /\ UNCHANGED <<proxyVars, configuredTree, attempt, timers, firedTimers, cacheOps>>

\* what the synthesized Phantom adapter's signTransaction does before it
\* delegates, lines 227-244: the calls it makes
PhantomSignCalls(txHasBlockhash) ==
    (IF txHasBlockhash THEN {} ELSE {"connection.getLatestBlockhash"})
    \cup {"sol.signTransaction"}

SignerCalls(signer, txHasBlockhash) ==
    IF signer = "phantom" THEN PhantomSignCalls(txHasBlockhash)
    ELSE {"walletAdapter.signTransaction"}

\* mintBuilder.sendAndConfirm(umi) settles, lines 159-163.  stage: how far the
\* SDK got ("build": it failed before asking for a signature, "sign": the
\* signer rejected, "send": sending or confirming failed, "confirmed")
SendAndConfirm ==
    /\ pc = "awaitChain"
    /\ \E stage \in {"build", "sign", "send", "confirmed"}, txHasBlockhash \in BOOLEAN :
         LET calls == {"sendAndConfirm"} \cup
                      (IF stage = "build" THEN {}
                       ELSE SignerCalls(att.signer, txHasBlockhash))
         IN IF stage = "confirmed"
            THEN /\ att' = [att EXCEPT !.calls = @ \cup calls,
                                       !.result = [signature |-> "base64(signature)",
                                                   assetId |-> "pending-indexing"]]
                 /\ pc' = "succeeded"
            ELSE /\ att' = [att EXCEPT !.calls = @ \cup calls,
                                       !.error = Err("sendAndConfirm failed", 0)]
                 /\ pc' = "failed"
    /\ UNCHANGED <<proxyVars, configuredTree, attempt, timers, firedTimers, cacheOps>>

----------------------------------------------------------------------------
(* useMintCNFT: onSuccess, onError and the deferred invalidations *)

ShortDelay == 3000
LongDelay == 10000

\* String.prototype.substring(0, 8) on the asset ids of the model
Substring0to8(s) ==
    CASE s = "id1-abcdefgh" -> "id1-abcd"
      [] s = "pending-indexing" -> "pending-"
      [] OTHER -> s

SignedAndPaid ==
    "You signed and paid for this transaction. Note: Using mock metadata URI for testing."
AssetIdMessage == "Asset ID: ${data.assetId.substring(0, 8)}..."
TreeGuidance == "Merkle tree not configured. Check TREE_SETUP_GUIDE.md"

\* lines 304-314
SuccessToast(tree, data) ==
    IF tree
    THEN [level |-> "success", title |-> "cNFT Minted Successfully!",
          description |-> SignedAndPaid, arg |-> 0, assetId |-> undefined]
    ELSE [level |-> "success", title |-> "Compressed NFT Minted!",
          description |-> AssetIdMessage, arg |-> 0,
          assetId |-> Substring0to8(data.assetId)]

\* error.message.includes('NEXT_PUBLIC_MERKLE_TREE_ADDRESS'): the messages of
\* the hook that contain the variable's name (a provider's text is taken not to)
MentionsTreeVariable(error) ==
    error.message \in {TreeNotConfigured.message, WalletNotConnectedTree.message}

\* lines 329-337
ErrorToastMutantAlwaysGuidance(error) ==
    [level |-> "error", title |-> "Failed to Mint cNFT",
     description |-> TreeGuidance, arg |-> 0, assetId |-> undefined]

ErrorToast(error) ==
    IF MentionsTreeVariable(error)
    THEN [level |-> "error", title |-> "Failed to Mint cNFT",
          description |-> TreeGuidance, arg |-> 0, assetId |-> undefined]
    ELSE [level |-> "error", title |-> "Failed to Mint cNFT",
          description |-> error.message, arg |-> error.arg, assetId |-> undefined]

\* setTimeout(callback, delay): the timer queue stays ordered by due time,
\* timers due at the same time in the order they were set
SetTimeout(queue, id, delay) ==
    LET t == [attempt |-> id, delay |-> delay, remaining |-> delay]
    IN SelectSeq(queue, LAMBDA x : x.remaining <= delay) \o <<t>>
       \o SelectSeq(queue, LAMBDA x : x.remaining > delay)

\* lines 317-324: the timers onSuccess sets, in the order it sets them
SuccessDelaysMutantOne == <<ShortDelay>>
SuccessDelays == <<ShortDelay, LongDelay>>

OnSuccess ==
    /\ pc = "succeeded"
    /\ att' = [att EXCEPT !.toasts = Append(@, SuccessToast(configuredTree, att.result)),
                          !.scheduled = @ \o SuccessDelays]
    /\ timers' = LET Set[i \in 0..Len(SuccessDelays)] ==
                       IF i = 0 THEN timers
                       ELSE SetTimeout(Set[i - 1], att.id, SuccessDelays[i])
                 IN Set[Len(SuccessDelays)]
    /\ pc' = "done"
    /\ UNCHANGED <<proxyVars, configuredTree, attempt, firedTimers, cacheOps>>

OnError ==
    /\ pc = "failed"
    /\ att' = [att EXCEPT !.toasts = Append(@, ErrorToast(att.error))]
    /\ pc' = "done"
    /\ UNCHANGED <<proxyVars, configuredTree, attempt, timers, firedTimers, cacheOps>>

\* time passes until the next timer is due; a due timer runs before time
\* passes again.  Whatever happens between two such instants is placed at the
\* earlier one: the order of the events is kept, their exact times are not
AdvanceTime ==
    /\ timers # <<>>
    /\ timers[1].remaining > 0
    /\ LET d == timers[1].remaining IN
         timers' = [i \in 1..Len(timers) |->
                      [timers[i] EXCEPT !.remaining = @ - d]]
    /\ UNCHANGED <<proxyVars, configuredTree, pc, attempt, att, firedTimers, cacheOps>>

\* the callback of a due timer: queryClient.invalidateQueries
InvalidateUserCnfts == [op |-> "invalidateQueries", queryKey |-> "user-cnfts"]

FireTimer ==
    /\ timers # <<>>
    /\ timers[1].remaining = 0
    /\ cacheOps' = Append(cacheOps, InvalidateUserCnfts)
    /\ firedTimers' = firedTimers \cup
                        {[attempt |-> timers[1].attempt, delay |-> timers[1].delay]}
    /\ timers' = Tail(timers)
    /\ UNCHANGED <<proxyVars, configuredTree, pc, attempt, att>>

----------------------------------------------------------------------------
(* Specifications *)

NoAttempt == [id |-> 0]

Init ==
    /\ rpcProxy = RpcIdle
    /\ mintProxy = MintIdle
    /\ configuredTree \in BOOLEAN
    /\ pc = "idle"
    /\ attempt = 0
    /\ att = NoAttempt
    /\ timers = <<>>
    /\ firedTimers = {}
    /\ cacheOps = <<>>

NextRpcProxy == RpcPost \/ RpcGet
SpecRpcProxy == Init /\ [][NextRpcProxy]_vars

NextMintProxy == MintPost \/ MintGet
SpecMintProxy == Init /\ [][NextMintProxy]_vars

Next ==
    \/ Mutate
    \/ ProxyReply
    \/ SendAndConfirm
    \/ OnSuccess
    \/ OnError
    \/ AdvanceTime
    \/ FireTimer
Spec == Init /\ [][Next]_vars

\* the event loop runs a due timer, and time does not stop
SpecFair == Spec /\ WF_vars(AdvanceTime) /\ WF_vars(FireTimer)

----------------------------------------------------------------------------
(* Properties *)

Settled == pc \in {"succeeded", "failed", "done"}
Succeeded == pc \in {"succeeded", "done"} /\ att.error = NoError
Failed == pc \in {"failed", "done"} /\ att.error # NoError

\* which strategy submitted the mint of the current mutation
PerformedBy ==
    IF "sendAndConfirm" \in att.calls THEN "user"
    ELSE IF att.proxyRequests # <<>> THEN "server"
    ELSE "none"

\* the strategy (tree address configured, forceHelius) selects
Selected == IF configuredTree /\ ~att.params.forceHelius THEN "user" ELSE "server"

SignerOrChainCalls ==
    {"sendAndConfirm", "walletAdapter.signTransaction", "sol.signTransaction",
     "connection.getLatestBlockhash"}

\* C1: the existing-tree branch of a mutation is entered exactly when the tree
\* address is configured and forceHelius is false, whatever the wallet and the
\* account are; in the three other combinations the Helius branch is taken: no
\* signer is resolved, nothing is signed or sent to the chain, and with a known
\* account address the Mint Proxy is called once with that address as owner.
C1_StrategySelection ==
    pc # "idle" =>
      /\ att.useExistingTree <=> (configuredTree /\ ~att.params.forceHelius)
      /\ ~att.useExistingTree =>
           /\ att.signer = "none"
           /\ pc # "awaitChain"
           /\ att.calls \cap SignerOrChainCalls = {}
           /\ Truthy(att.account.address) /\ Settled =>
                att.proxyRequests = <<HeliusAPIBody(att.params, att.account.address)>>

C1_Witness ==
    /\ pc = "done"
    /\ configuredTree /\ att.params.forceHelius
    /\ Truthy(att.adapter.publicKey)
    /\ att.proxyRequests # <<>>

\* the inputs of scenario C
ScenarioC ==
    /\ configuredTree /\ ~att.params.forceHelius
    /\ ~Truthy(att.adapter.publicKey)
    /\ ~PhantomPresent(att.sol)
    /\ ~Truthy(att.account.address)

\* C2: with the tree configured, forceHelius false, no adapter public key, no
\* injected Phantom extension and no account address, the mutation fails at
\* once with the wallet-not-connected error, it never waits for the Mint Proxy
\* or the chain, it makes no call to the proxy, the chain or a signer, and
\* its onError shows one error notification.
C2_ScenarioC ==
    pc # "idle" /\ ScenarioC =>
      /\ pc \in {"failed", "done"}
      /\ att.error = WalletNotConnectedTree
      /\ att.calls = {}
      /\ att.proxyRequests = <<>>
      /\ pc = "done" => /\ Len(att.toasts) = 1
                        /\ att.toasts[1].level = "error"

C2_Witness == pc = "done" /\ ScenarioC /\ Len(att.toasts) = 1

\* C3: a POST to the Mint Proxy whose JSON body lacks name, symbol or owner (or
\* has it falsy) is answered 400 with an error body and sends nothing
\* upstream; a request is sent upstream only when all three are present.
C3_MissingFieldsRejected ==
    mintProxy.phase = "post" /\ mintProxy.body.kind # "unparsable" =>
      /\ MissingRequired(mintProxy.body) =>
           /\ mintProxy.response.status = 400
           /\ "error" \in DOMAIN mintProxy.response.json
           /\ mintProxy.forwarded = <<>>
      /\ mintProxy.forwarded # <<>> => ~MissingRequired(mintProxy.body)

ValidMintBody(body) == body.kind = "object" /\ ~MissingRequired(body)

\* C4: for a Mint Proxy request with name, symbol and owner, a provider
\* response with a non-2xx status is answered 502 with an error body carrying
\* that status, a 2xx response whose JSON has an error is answered 502 with
\* that error, and a 200 {signature, assetId} is answered only for a 2xx
\* provider response without an error.
C4_UpstreamErrors ==
    mintProxy.phase = "post" =>
      LET up == mintProxy.upstream
          r == mintProxy.response
          valid == ValidMintBody(mintProxy.body) /\ up.kind = "response"
      IN /\ valid /\ ~Ok(up.status) =>
              /\ r.status = 502
              /\ r.json = [error |-> Err("Helius error: ${resp.status} - ${txt}", up.status)]
         /\ valid /\ Ok(up.status) /\ up.data.json = "object"
                  /\ Truthy(up.data.error.message) =>
              /\ r.status = 502
              /\ r.json = [error |-> up.data.error]
         /\ r.status = 200 =>
              /\ up.kind = "response" /\ Ok(up.status)
              /\ up.data.json = "object" /\ ~Truthy(up.data.error.message)
              /\ r.json = [signature |-> up.data.result.signature,
                           assetId |-> up.data.result.assetId]

C4_Witness ==
    /\ mintProxy.phase = "post"
    /\ ValidMintBody(mintProxy.body)
    /\ mintProxy.upstream.kind = "response"
    /\ mintProxy.upstream.status = 404
    /\ mintProxy.response.status = 502

\* C5: a POST to the RPC proxy with a JSON body is answered 400 and forwards
\* nothing when method is absent; otherwise exactly one request is forwarded,
\* its envelope has jsonrpc "2.0", id "proxy" and the caller's method and
\* params, and the provider's status and body are returned as they came.
C5_RpcPassThrough ==
    rpcProxy.phase = "post" /\ rpcProxy.body.kind # "unparsable" =>
      IF ~Truthy(rpcProxy.body.method)
      THEN /\ rpcProxy.response.status = 400
           /\ rpcProxy.forwarded = <<>>
      ELSE /\ Len(rpcProxy.forwarded) = 1
           /\ rpcProxy.forwarded[1].jsonrpc = "2.0"
           /\ rpcProxy.forwarded[1].id = "proxy"
           /\ rpcProxy.forwarded[1].method = rpcProxy.body.method
           /\ rpcProxy.forwarded[1].params = rpcProxy.body.params
           /\ rpcProxy.upstream.kind = "response" =>
                /\ rpcProxy.response.status = rpcProxy.upstream.status
                /\ "text" \in DOMAIN rpcProxy.response
                /\ rpcProxy.response.text = rpcProxy.upstream.text

\* C6: after a successful mint the success notification names the strategy that
\* performed it: the signed-and-paid message exactly when the transaction was
\* signed by the user, the Asset ID message exactly when the Mint Proxy minted.
C6_SuccessMessageMatchesStrategy ==
    pc = "done" /\ Succeeded =>
      /\ Len(att.toasts) = 1
      /\ att.toasts[1].description = SignedAndPaid <=> PerformedBy = "user"
      /\ att.toasts[1].description = AssetIdMessage <=> PerformedBy = "server"

\* the timers of mutation `a`, pending or run
PendingDelays(a) ==
    {timers[i].delay : i \in {j \in 1..Len(timers) : timers[j].attempt = a}}
FiredDelays(a) == {f.delay : f \in {g \in firedTimers : g.attempt = a}}
PendingCount(a) == Cardinality({j \in 1..Len(timers) : timers[j].attempt = a})

C7_Safety ==
    /\ pc = "done" /\ Succeeded =>
         /\ att.scheduled = <<ShortDelay, LongDelay>>
         /\ PendingCount(att.id) + Cardinality(FiredDelays(att.id)) = 2
         /\ PendingDelays(att.id) \cup FiredDelays(att.id) = {ShortDelay, LongDelay}
         /\ PendingDelays(att.id) \cap FiredDelays(att.id) = {}
    /\ pc # "idle" /\ ~(pc = "done" /\ Succeeded) =>
         /\ att.scheduled = <<>>
         /\ PendingDelays(att.id) \cup FiredDelays(att.id) = {}
    /\ \A f \in firedTimers :
         f.delay = LongDelay =>
           [attempt |-> f.attempt, delay |-> ShortDelay] \in firedTimers
    /\ \A i \in 1..Len(cacheOps) : cacheOps[i] = InvalidateUserCnfts
    /\ Len(cacheOps) = Cardinality(firedTimers)

\* C7: a mutation that succeeds sets exactly two invalidations of
\* ['user-cnfts'], the 3000 ms one runs before the 10000 ms one, and both run
\* in the end; a mutation that fails sets none; the query client sees nothing
\* but these invalidations.
C7_TwoInvalidations ==
    /\ []C7_Safety
    /\ \A a \in 1..MaxAttempts : \A d \in {ShortDelay, LongDelay} :
         (d \in PendingDelays(a)) ~> (d \in FiredDelays(a))

C7_Witness ==
    /\ pc = "done" /\ Succeeded
    /\ FiredDelays(att.id) = {ShortDelay, LongDelay}
    /\ Len(cacheOps) >= 2

\* C8: the strategy selected from (tree address configured, forceHelius) at
\* the start of a mutation is the one that submits the mint and the one the
\* success handling reports.
C8_DecisionMadeOnce ==
    pc # "idle" =>
      /\ PerformedBy \in {"none", Selected}
      /\ pc = "done" /\ Succeeded =>
           (IF att.toasts[1].description = SignedAndPaid THEN "user" ELSE "server")
             = Selected

\* C9: in the existing-tree branch an adapter with a public key is the signer;
\* else an injected Phantom extension is wrapped and is the signer; else a
\* known account address re-routes the mutation to the Mint Proxy with that
\* address as owner, without signing or chain submission; the mutation fails
\* as wallet-not-connected only when none of the three is available, and the
\* account address is never used while an adapter key or Phantom is there.
C9_SignerPriority ==
    pc # "idle" /\ att.useExistingTree =>
      LET adapterKey == Truthy(att.adapter.publicKey)
          phantom == PhantomPresent(att.sol)
          address == Truthy(att.account.address)
      IN /\ adapterKey => att.signer = "adapter" /\ ~att.rerouted
         /\ ~adapterKey /\ phantom => att.signer = "phantom" /\ ~att.rerouted
         /\ ~adapterKey /\ ~phantom /\ address =>
              /\ att.rerouted
              /\ att.calls \cap SignerOrChainCalls = {}
              /\ Settled => att.proxyRequests
                              = <<HeliusAPIBody(att.params, att.account.address)>>
         /\ ~adapterKey /\ ~phantom /\ ~address => att.error = WalletNotConnectedTree
         /\ att.error = WalletNotConnectedTree => ~adapterKey /\ ~phantom /\ ~address
         /\ att.proxyRequests # <<>> => ~adapterKey /\ ~phantom

\* C10: a failed mutation shows exactly one error notification; its
\* description is the 'Merkle tree not configured' guidance only when the
\* failure is the missing tree address, and with the tree address configured
\* every other failure shows its own message.
C10_ErrorDescription ==
    pc = "done" /\ Failed =>
      /\ Len(att.toasts) = 1
      /\ att.toasts[1].level = "error"
      /\ att.toasts[1].description = TreeGuidance => att.error = TreeNotConfigured
      /\ configuredTree /\ att.error # TreeNotConfigured =>
           att.toasts[1].description = att.error.message

====
